---- MODULE Spec2Model ----
(***************************************************************************)
(* Safe Streets backend (src/app.py): the five FastAPI endpoints, the      *)
(* provider calls they make and the error translation around them, run on  *)
(* one event loop.                                                         *)
(*                                                                         *)
(* Python strings that the handlers build by concatenation are modelled as *)
(* sequences of text pieces, so that f"prefix {str(e)}" is prefix \o Str(e) *)
(* and `needle in text` is membership of a piece.  Python dicts are        *)
(* records/functions; a missing key is a key outside DOMAIN.  Python lists *)
(* are sequences; Python index i is TLA+ index i + 1.                      *)
(***************************************************************************)
EXTENDS Integers, Sequences, FiniteSets, TLC

(* ---------------------------- bounds ---------------------------------- *)
NReq == 2             \* request slots that can be open at the same time
MaxCoord == 1         \* coordinate components range over 0..MaxCoord
MaxGeoFeatures == 1   \* longest feature list a geocoding reply carries
MaxRouteFeatures == 2 \* longest feature list a routing reply carries
MaxChoices == 1       \* longest choices list a chat reply carries

Req == 1..NReq
Coord == 0..MaxCoord

SeqsUpTo(S, n) == UNION {[1..k -> S] : k \in 0..n}

\* Feature lists of at most n features: any first feature from F, followed
\* by lower-ranked features `other`.
FeatureLists(F, other, n) ==
    {<<>>} \cup {<<f>> \o [i \in 1..k |-> other] : f \in F, k \in 0..(n - 1)}

(* ---------------------------- values ---------------------------------- *)
NoneVal == [kind |-> "None"]

Addr == {"a", "b"}

\* Coordinate lists a provider can put in a geometry: well formed (lon, lat)
\* pairs and lists with fewer than two components.
CoordLists == [1..2 -> Coord] \cup [1..1 -> {0}]

GeoFeature ==
    {[type |-> "Feature", geometry |-> [coordinates |-> c]] : c \in CoordLists}
    \cup {[type |-> "Feature"]}

\* A further match that a geocoding reply lists after the first one.
OtherGeoFeature == [type |-> "Feature", geometry |-> [coordinates |-> <<1, 0>>]]

\* A route geometry is a list of (lon, lat) points.
RouteGeoms == {<< <<0, 0>>, <<1, 1>> >>}

RouteFeature ==
    {[type |-> "Feature", geometry |-> [coordinates |-> g]] : g \in RouteGeoms}
    \cup {[type |-> "Feature"]}

\* An alternative route that a routing reply lists after the first one.
OtherRouteFeature ==
    [type |-> "Feature", geometry |-> [coordinates |-> << <<1, 1>>, <<0, 0>> >>]]

RadiusNeedle == "Could not find routable point within a radius"
RadiusApiMsg == <<"404 (", RadiusNeedle, " of 350.0 meters of specified coordinate 1)">>
OtherApiMsg == <<"403 (", "Access to this API has been disallowed", ")">>

Exc(t, m) == [type |-> t, status_code |-> 0, detail |-> m]
HTTPException(s, d) == [type |-> "HTTPException", status_code |-> s, detail |-> d]

ApiErrors == {Exc("ApiError", RadiusApiMsg), Exc("ApiError", OtherApiMsg)}
ClientErrors == ApiErrors \cup {Exc("Timeout", <<"Timeout">>)}

Raise(e) == [kind |-> "raise", exc |-> e]
Ok(fs) == [kind |-> "ok", features |-> fs]

GeoReplies == {Ok(fs) : fs \in FeatureLists(GeoFeature, OtherGeoFeature, MaxGeoFeatures)}
              \cup {Raise(e) : e \in ClientErrors}
RouteReplies == {Ok(fs) : fs \in FeatureLists(RouteFeature, OtherRouteFeature, MaxRouteFeatures)}
                \cup {Raise(e) : e \in ClientErrors \cup {Exc("IndexError", <<"list index out of range">>)}}

CoordsMsg == <<"Could not find valid coordinates for the specified addresses.">>
RemoteMsg == <<"Could not find a route to the specified destination. It may be too remote for routing.">>
NoRouteMsg == <<"No route found between the specified locations.">>
KeyNotSetMsg == <<"OpenAI API key is not set.">>
ScoreFailMsg == <<"Could not fetch safety score.">>

(* ------------------------ python primitives --------------------------- *)
\* `needle in text`
Contains(text, needle) == \E i \in 1..Len(text) : text[i] = needle

IntStr(n) == CASE n = 404 -> "404" [] n = 500 -> "500" [] n = 200 -> "200" [] OTHER -> "0"

\* str(e): an HTTPException prints as "<status_code>: <detail>", any other
\* exception as its message.
Str(e) == IF e.type = "HTTPException"
          THEN <<IntStr(e.status_code), ": ">> \o e.detail
          ELSE e.detail

\* (variant of `not x` that takes only an unset variable for missing)
Falsy_unset_only(k) == k = "None"

\* `not x` for the credential read from the environment ("None" is an unset
\* variable, "" an empty one).
Falsy(k) == k \in {"None", ""}

HasKey(d, k) == k \in DOMAIN d

KeyError(k) == Exc("KeyError", <<"'", k, "'">>)
IndexErr == Exc("IndexError", <<"list index out of range">>)

(* ------------------------------ state --------------------------------- *)
VARIABLES
    openai_api_key,   \* openai.api_key, set once at import (line 11)
    ors_key,          \* ors_key / the key held by ors_client (lines 12-15)
    origins,          \* allowed CORS origins (line 21)
    loop,             \* the request whose coroutine occupies the event loop, 0 if none
    pc,               \* per request: where its handling stands
    endpoint,         \* per request: the path operation it addresses
    body,             \* per request: the parsed request body
    frame,            \* per request: the handler's local variables
    calls,            \* per request: provider calls issued so far, in order
    replies,          \* per request: what each of those calls came back with
    result,           \* per request: what the handler handed to the framework
    scoring_provider  \* per request: the answer the scoring service has ready for it

vars == <<openai_api_key, ors_key, origins, loop, pc, endpoint, body, frame,
          calls, replies, result, scoring_provider>>

globals == <<openai_api_key, ors_key, origins>>

AsyncEndpoints == {"get_safe_route", "ask_ai", "get_safety_score", "alerts"}
Endpoints == AsyncEndpoints \cup {"root"}

Frame0 == [origin_search |-> NoneVal, destination_search |-> NoneVal,
           origin_coords |-> NoneVal, destination_coords |-> NoneVal,
           routes |-> NoneVal, response |-> NoneVal,
           inferell |-> NoneVal, e |-> NoneVal]

Init ==
    /\ openai_api_key \in {"None", "", "sk-test"}
    /\ ors_key = "ors-test"
    /\ origins = <<"http://localhost:3000">>
    /\ loop = 0
    /\ pc = [r \in Req |-> "idle"]
    /\ endpoint = [r \in Req |-> "none"]
    /\ body = [r \in Req |-> NoneVal]
    /\ frame = [r \in Req |-> Frame0]
    /\ calls = [r \in Req |-> <<>>]
    /\ replies = [r \in Req |-> <<>>]
    /\ result = [r \in Req |-> NoneVal]
    /\ scoring_provider = [r \in Req |-> NoneVal]

(* --------------------------- responses -------------------------------- *)
\* What the framework sends for a handler that returned `b` / raised
\* HTTPException `h`.
Success(b) == [status |-> 200, detail |-> <<>>, body |-> b]
Failure(h) == [status |-> h.status_code, detail |-> h.detail, body |-> NoneVal]

(* -------------------- get_safe_route, lines 43-108 -------------------- *)
\* lines 69-79: the handler of the inner try around ors_client.directions
InnerExcept(e) ==
    IF Contains(Str(e), RadiusNeedle)
    THEN HTTPException(404, RemoteMsg)
    ELSE HTTPException(500, <<"Error generating route: ">> \o Str(e))

\* lines 102-108: the handlers of the outer try
OuterExcept(e) ==
    IF e.type = "ApiError"
    THEN HTTPException(500, <<"Error generating route: ">> \o Str(e))
    ELSE IF e.type = "IndexError"
    THEN HTTPException(404, CoordsMsg)
    ELSE HTTPException(500, <<"Unexpected error occurred: ">> \o Str(e))

\* lines 90-94; o and d are (lon, lat) lists with at least two components
\* (variant of line 91 with >= for >)
police_stations_ge(o, d) == IF o[2] >= d[2] THEN 3 ELSE 2
police_stations(o, d) == IF o[2] > d[2] THEN 3 ELSE 2
public_facilities(o, d) == IF o[1] < d[1] THEN 5 ELSE 3
crowd_density(o, d) == IF o[2] < d[2] THEN "High" ELSE "Medium"

Alerts(o, d) == [police_stations |-> police_stations(o, d),
                 public_facilities |-> public_facilities(o, d),
                 crowd_density |-> crowd_density(o, d)]

\* lines 96-101
RouteBody(b, o, d, rc) ==
    [origin |-> [address |-> b.origin, coordinates |-> o],
     destination |-> [address |-> b.destination, coordinates |-> d],
     route |-> rc,
     alerts |-> Alerts(o, d)]

Goto(r, l) == pc' = [pc EXCEPT ![r] = l]
Throw(r, e) == /\ frame' = [frame EXCEPT ![r].e = e]
               /\ Goto(r, "except")

\* line 48, the call leaves
PeliasSearchOrigin(r) ==
    /\ pc[r] = "L48" /\ loop = r
    /\ calls' = [calls EXCEPT ![r] = Append(@, "geocode_origin")]
    /\ Goto(r, "in_geocode_origin")
    /\ UNCHANGED <<globals, scoring_provider, loop, endpoint, body, frame, replies, result>>

\* (variant of line 48 that issues the call again when it raised)
OriginReturns_retry(r) ==
    /\ pc[r] = "in_geocode_origin" /\ loop = r
    /\ \E rep \in GeoReplies :
         /\ replies' = [replies EXCEPT ![r] = Append(@, rep)]
         /\ IF rep.kind = "raise"
            THEN Goto(r, "L48") /\ UNCHANGED frame
            ELSE /\ frame' = [frame EXCEPT ![r].origin_search = rep]
                 /\ Goto(r, "L49")
    /\ UNCHANGED <<globals, scoring_provider, loop, endpoint, body, calls, result>>

\* line 48, the call comes back
OriginReturns(r) ==
    /\ pc[r] = "in_geocode_origin" /\ loop = r
    /\ \E rep \in GeoReplies :
         /\ replies' = [replies EXCEPT ![r] = Append(@, rep)]
         /\ IF rep.kind = "raise"
            THEN Throw(r, rep.exc)
            ELSE /\ frame' = [frame EXCEPT ![r].origin_search = rep]
                 /\ Goto(r, "L49")
    /\ UNCHANGED <<globals, scoring_provider, loop, endpoint, body, calls, result>>

\* line 49, the call leaves
PeliasSearchDestination(r) ==
    /\ pc[r] = "L49" /\ loop = r
    /\ calls' = [calls EXCEPT ![r] = Append(@, "geocode_destination")]
    /\ Goto(r, "in_geocode_destination")
    /\ UNCHANGED <<globals, scoring_provider, loop, endpoint, body, frame, replies, result>>

\* line 49, the call comes back
DestinationReturns(r) ==
    /\ pc[r] = "in_geocode_destination" /\ loop = r
    /\ \E rep \in GeoReplies :
         /\ replies' = [replies EXCEPT ![r] = Append(@, rep)]
         /\ IF rep.kind = "raise"
            THEN Throw(r, rep.exc)
            ELSE /\ frame' = [frame EXCEPT ![r].destination_search = rep]
                 /\ Goto(r, "L52")
    /\ UNCHANGED <<globals, scoring_provider, loop, endpoint, body, calls, result>>

\* lines 52-60
ExtractCoordinates(r) ==
    /\ pc[r] = "L52" /\ loop = r
    /\ LET o == frame[r].origin_search.features
           d == frame[r].destination_search.features
       IN  IF o = <<>> \/ d = <<>>
           THEN Throw(r, HTTPException(404, CoordsMsg))
           ELSE IF ~HasKey(o[1], "geometry") \/ ~HasKey(d[1], "geometry")
           THEN Throw(r, KeyError("geometry"))
           ELSE /\ frame' = [frame EXCEPT
                       ![r].origin_coords = o[1].geometry.coordinates,
                       ![r].destination_coords = d[1].geometry.coordinates]
                /\ Goto(r, "L64")
    /\ UNCHANGED <<globals, scoring_provider, loop, endpoint, body, calls, replies, result>>

\* lines 64-68, the call leaves
Directions(r) ==
    /\ pc[r] = "L64" /\ loop = r
    /\ calls' = [calls EXCEPT ![r] = Append(@, "route")]
    /\ Goto(r, "in_route")
    /\ UNCHANGED <<globals, scoring_provider, loop, endpoint, body, frame, replies, result>>

\* lines 64-101: the call comes back; an ApiError runs the inner handler
\* (69-79), a normal return goes on to build the response (82-101)
DirectionsReturns(r) ==
    /\ pc[r] = "in_route" /\ loop = r
    /\ \E rep \in RouteReplies :
         /\ replies' = [replies EXCEPT ![r] = Append(@, rep)]
         /\ IF rep.kind = "raise"
            THEN /\ IF rep.exc.type = "ApiError"
                    THEN Throw(r, InnerExcept(rep.exc))
                    ELSE Throw(r, rep.exc)
                 /\ UNCHANGED result
            ELSE LET fs == rep.features
                     o == frame[r].origin_coords
                     d == frame[r].destination_coords
                     raised == IF fs = <<>> THEN HTTPException(404, NoRouteMsg)
                               ELSE IF ~HasKey(fs[1], "geometry") THEN KeyError("geometry")
                               ELSE IF Len(o) < 2 \/ Len(d) < 2 THEN IndexErr
                               ELSE NoneVal
                 IN  IF raised # NoneVal
                     THEN /\ frame' = [frame EXCEPT ![r].routes = rep, ![r].e = raised]
                          /\ Goto(r, "except")
                          /\ UNCHANGED result
                     ELSE /\ frame' = [frame EXCEPT ![r].routes = rep]
                          /\ result' = [result EXCEPT ![r] =
                                 Success(RouteBody(body[r], o, d, fs[1].geometry.coordinates))]
                          /\ Goto(r, "returning")
    /\ UNCHANGED <<globals, scoring_provider, loop, endpoint, body, calls>>

\* lines 102-108
RouteExcept(r) ==
    /\ pc[r] = "except" /\ endpoint[r] = "get_safe_route" /\ loop = r
    /\ result' = [result EXCEPT ![r] = Failure(OuterExcept(frame[r].e))]
    /\ Goto(r, "returning")
    /\ UNCHANGED <<globals, scoring_provider, loop, endpoint, body, frame, calls, replies>>

(* ------------------------ ask_ai, lines 112-139 ----------------------- *)
Whitespace == {" ", "\n"}

RECURSIVE LStrip(_)
LStrip(s) == IF s # <<>> /\ Head(s) \in Whitespace THEN LStrip(Tail(s)) ELSE s

RECURSIVE RStrip(_)
RStrip(s) == IF s # <<>> /\ s[Len(s)] \in Whitespace
             THEN RStrip(SubSeq(s, 1, Len(s) - 1)) ELSE s

\* str.strip()
Strip(s) == RStrip(LStrip(s))

Contents == {<<"Stay on lit streets.">>, <<" ", "Stay on lit streets.", "\n">>,
             <<"\n">>, <<>>}
ChatChoice == {[message |-> [content |-> c]] : c \in Contents}
ChatReplies == {[kind |-> "ok", choices |-> cs] : cs \in SeqsUpTo(ChatChoice, MaxChoices)}
               \cup {Raise(Exc("RateLimitError", <<"Rate limit reached">>))}

Questions == {<<"Is this street safe?">>}

\* lines 136-139
AskExcept(e) ==
    HTTPException(500, <<"Unexpected error with AI response: ">> \o Str(e))

\* (variant of lines 116-117 that re-reads the credential into openai.api_key
\* when it finds none)
CheckApiKey_reload(r) ==
    /\ pc[r] = "L116" /\ loop = r
    /\ IF Falsy(openai_api_key)
       THEN /\ Throw(r, HTTPException(500, KeyNotSetMsg))
            /\ openai_api_key' = ""
       ELSE Goto(r, "L126") /\ UNCHANGED <<frame, openai_api_key>>
    /\ UNCHANGED <<ors_key, origins, scoring_provider, loop, endpoint, body, calls, replies, result>>

\* lines 116-123
CheckApiKey(r) ==
    /\ pc[r] = "L116" /\ loop = r
    /\ IF Falsy(openai_api_key)
       THEN Throw(r, HTTPException(500, KeyNotSetMsg))
       ELSE Goto(r, "L126") /\ UNCHANGED frame
    /\ UNCHANGED <<globals, scoring_provider, loop, endpoint, body, calls, replies, result>>

\* lines 126-131, the call leaves
ChatCompletionCreate(r) ==
    /\ pc[r] = "L126" /\ loop = r
    /\ calls' = [calls EXCEPT ![r] = Append(@, "chat")]
    /\ Goto(r, "in_chat")
    /\ UNCHANGED <<globals, scoring_provider, loop, endpoint, body, frame, replies, result>>

\* lines 126-131, the call comes back
ChatReturns(r) ==
    /\ pc[r] = "in_chat" /\ loop = r
    /\ \E rep \in ChatReplies :
         /\ replies' = [replies EXCEPT ![r] = Append(@, rep)]
         /\ IF rep.kind = "raise"
            THEN Throw(r, rep.exc)
            ELSE /\ frame' = [frame EXCEPT ![r].response = rep]
                 /\ Goto(r, "L134")
    /\ UNCHANGED <<globals, scoring_provider, loop, endpoint, body, calls, result>>

\* lines 134-135
ExtractAnswer(r) ==
    /\ pc[r] = "L134" /\ loop = r
    /\ LET cs == frame[r].response.choices
       IN  IF cs = <<>>
           THEN Throw(r, IndexErr) /\ UNCHANGED result
           ELSE /\ result' = [result EXCEPT ![r] =
                       Success([response |-> Strip(cs[1].message.content)])]
                /\ Goto(r, "returning")
                /\ UNCHANGED frame
    /\ UNCHANGED <<globals, scoring_provider, loop, endpoint, body, calls, replies>>

\* lines 136-139
AskAIExcept(r) ==
    /\ pc[r] = "except" /\ endpoint[r] = "ask_ai" /\ loop = r
    /\ result' = [result EXCEPT ![r] = Failure(AskExcept(frame[r].e))]
    /\ Goto(r, "returning")
    /\ UNCHANGED <<globals, scoring_provider, loop, endpoint, body, frame, calls, replies>>

(* ------------------- get_safety_score, lines 142-166 ------------------ *)
\* Names bound in the module's namespace (lines 1-7, 11-21).
ModuleNames == {"os", "FastAPI", "HTTPException", "Query", "BaseModel", "openai",
                "openrouteservice", "load_dotenv", "CORSMiddleware",
                "ors_key", "ors_client", "app", "origins"}

ScoreJson == {[score |-> "0.82"], [status |-> "ok"]}
ScoreReplies == {[kind |-> "ok", status_code |-> c, json |-> j] :
                     c \in {200, 503}, j \in ScoreJson}
                \cup {Raise(Exc("ConnectionError", <<"Connection refused">>))}

RouteLists == {<<>>, << <<0, 0>>, <<1, 1>> >>}

\* lines 152-156: evaluating the name `requests`, then the POST
RequestsPost(available) ==
    IF "requests" \in ModuleNames
    THEN available
    ELSE Raise(Exc("NameError", <<"name 'requests' is not defined">>))

\* lines 159-166
ScoreOutcome(rep) ==
    IF rep.kind = "raise"
    THEN Failure(HTTPException(500, ScoreFailMsg))
    ELSE IF rep.status_code = 200
    THEN Success([safety_score |->
                    IF HasKey(rep.json, "score") THEN rep.json.score ELSE "N/A"])
    ELSE Success([safety_score |-> "Error fetching safety score"])

\* lines 147-166
GetSafetyScore(r) ==
    /\ pc[r] = "L149" /\ loop = r
    /\ LET rep == RequestsPost(scoring_provider[r])
       IN  /\ calls' = [calls EXCEPT ![r] =
                   IF "requests" \in ModuleNames THEN Append(@, "score") ELSE @]
           /\ replies' = [replies EXCEPT ![r] =
                   IF "requests" \in ModuleNames THEN Append(@, rep) ELSE @]
           /\ frame' = [frame EXCEPT
                   ![r].inferell = IF rep.kind = "ok" THEN rep ELSE @,
                   ![r].e = IF rep.kind = "raise" THEN rep.exc ELSE @]
           /\ result' = [result EXCEPT ![r] = ScoreOutcome(rep)]
    /\ Goto(r, "returning")
    /\ UNCHANGED <<globals, scoring_provider, loop, endpoint, body>>

(* ------------------ get_real_time_alerts, lines 169-176 --------------- *)
AlertsLiteral == [police_stations |-> 2, public_facilities |-> 5,
                  crowd_density |-> "Medium"]

GetRealTimeAlerts(r) ==
    /\ pc[r] = "L172" /\ loop = r
    /\ result' = [result EXCEPT ![r] = Success(AlertsLiteral)]
    /\ Goto(r, "returning")
    /\ UNCHANGED <<globals, scoring_provider, loop, endpoint, body, frame, calls, replies>>

(* ------------------------ read_root, lines 39-41 ---------------------- *)
\* read_root is a plain def: the framework runs it in a worker thread, not
\* on the event loop.
ReadRoot(r) ==
    /\ pc[r] = "in_threadpool"
    /\ result' = [result EXCEPT ![r] =
            Success([message |-> "Welcome to the Safe Streets API"])]
    /\ Goto(r, "thread_done")
    /\ UNCHANGED <<globals, scoring_provider, loop, endpoint, body, frame, calls, replies>>

(* ------------------------------ runtime ------------------------------- *)
FirstLabel(ep) == CASE ep = "get_safe_route" -> "L48"
                    [] ep = "ask_ai" -> "L116"
                    [] ep = "get_safety_score" -> "L149"
                    [] ep = "alerts" -> "L172"

Bodies(ep) == CASE ep = "get_safe_route" ->
                       {[origin |-> a[1], destination |-> a[2]] :
                           a \in {x \in Addr \X Addr : x[1] # x[2]}}
                [] ep = "ask_ai" -> {[question |-> q] : q \in Questions}
                [] ep = "get_safety_score" -> {[route |-> l] : l \in RouteLists}
                [] ep = "alerts" -> {NoneVal}

\* A client's request reaches the server's socket.
Arrive(r) ==
    /\ pc[r] = "idle"
    /\ Goto(r, "pending")
    /\ UNCHANGED <<globals, scoring_provider, loop, endpoint, body, frame, calls, replies, result>>

\* The event loop, when free, reads a request addressed to an async def
\* path operation, parses the body and enters the handler; the coroutine
\* keeps the loop until it returns or raises, since no handler contains an
\* await.
StartHandler(r) ==
    /\ pc[r] = "pending"
    /\ loop = 0
    /\ loop' = r
    /\ \E ep \in AsyncEndpoints :
         /\ endpoint' = [endpoint EXCEPT ![r] = ep]
         /\ \E b \in Bodies(ep) : body' = [body EXCEPT ![r] = b]
         /\ IF ep = "get_safety_score"
            THEN \E a \in ScoreReplies :
                    scoring_provider' = [scoring_provider EXCEPT ![r] = a]
            ELSE UNCHANGED scoring_provider
         /\ Goto(r, FirstLabel(ep))
    /\ UNCHANGED <<globals, frame, calls, replies, result>>

\* The event loop, when free, reads a request addressed to a plain def path
\* operation and hands the handler to a worker thread.
DispatchToThread(r) ==
    /\ pc[r] = "pending"
    /\ loop = 0
    /\ endpoint' = [endpoint EXCEPT ![r] = "root"]
    /\ Goto(r, "in_threadpool")
    /\ UNCHANGED <<globals, scoring_provider, loop, body, frame, calls, replies, result>>

Reset(r) ==
    /\ Goto(r, "idle")
    /\ endpoint' = [endpoint EXCEPT ![r] = "none"]
    /\ body' = [body EXCEPT ![r] = NoneVal]
    /\ frame' = [frame EXCEPT ![r] = Frame0]
    /\ calls' = [calls EXCEPT ![r] = <<>>]
    /\ replies' = [replies EXCEPT ![r] = <<>>]
    /\ result' = [result EXCEPT ![r] = NoneVal]
    /\ scoring_provider' = [scoring_provider EXCEPT ![r] = NoneVal]

\* The coroutine returns or raises: the response is sent, the frame is
\* dropped and the loop is free again.
Respond(r) ==
    /\ pc[r] = "returning" /\ loop = r
    /\ loop' = 0
    /\ Reset(r)
    /\ UNCHANGED globals

\* The event loop, when free, sends the response a worker thread produced.
RespondFromThread(r) ==
    /\ pc[r] = "thread_done" /\ loop = 0
    /\ Reset(r)
    /\ UNCHANGED <<globals, loop>>

Next ==
    \E r \in Req :
        \/ Arrive(r)
        \/ StartHandler(r)
        \/ DispatchToThread(r)
        \/ PeliasSearchOrigin(r)
        \/ OriginReturns(r)
        \/ PeliasSearchDestination(r)
        \/ DestinationReturns(r)
        \/ ExtractCoordinates(r)
        \/ Directions(r)
        \/ DirectionsReturns(r)
        \/ RouteExcept(r)
        \/ CheckApiKey(r)
        \/ ChatCompletionCreate(r)
        \/ ChatReturns(r)
        \/ ExtractAnswer(r)
        \/ AskAIExcept(r)
        \/ GetSafetyScore(r)
        \/ GetRealTimeAlerts(r)
        \/ ReadRoot(r)
        \/ Respond(r)
        \/ RespondFromThread(r)

Spec == Init /\ [][Next]_vars

TypeOK ==
    /\ loop \in 0..NReq
    /\ \A r \in Req : endpoint[r] \in Endpoints \cup {"none"}

(* --------------- the handlers as functions of the replies ------------- *)
\* lines 46-108: what get_safe_route answers to body b when the origin
\* geocode comes back with go, the destination geocode with gd and the
\* routing call with rt (a reply that is never asked for is not looked at).
RouteOutcome(b, go, gd, rt) ==
    LET raised ==
          IF go.kind = "raise" THEN go.exc
          ELSE IF gd.kind = "raise" THEN gd.exc
          ELSE IF go.features = <<>> \/ gd.features = <<>>
               THEN HTTPException(404, CoordsMsg)
          ELSE IF ~HasKey(go.features[1], "geometry")
                  \/ ~HasKey(gd.features[1], "geometry")
               THEN KeyError("geometry")
          ELSE IF rt.kind = "raise"
               THEN IF rt.exc.type = "ApiError" THEN InnerExcept(rt.exc) ELSE rt.exc
          ELSE IF rt.features = <<>> THEN HTTPException(404, NoRouteMsg)
          ELSE IF ~HasKey(rt.features[1], "geometry") THEN KeyError("geometry")
          ELSE IF Len(go.features[1].geometry.coordinates) < 2
                  \/ Len(gd.features[1].geometry.coordinates) < 2
               THEN IndexErr
          ELSE NoneVal
    IN  IF raised = NoneVal
        THEN Success(RouteBody(b, go.features[1].geometry.coordinates,
                               gd.features[1].geometry.coordinates,
                               rt.features[1].geometry.coordinates))
        ELSE Failure(OuterExcept(raised))

\* lines 115-139: what ask_ai answers under credential k when the chat call,
\* if made, comes back with ch.
AskOutcome(k, ch) ==
    IF Falsy(k) THEN Failure(AskExcept(HTTPException(500, KeyNotSetMsg)))
    ELSE IF ch.kind = "raise" THEN Failure(AskExcept(ch.exc))
    ELSE IF ch.choices = <<>> THEN Failure(AskExcept(IndexErr))
    ELSE Success([response |-> Strip(ch.choices[1].message.content)])

Nth(s, i) == IF i <= Len(s) THEN s[i] ELSE NoneVal

\* The response request r gets when it is the only request the server ever
\* handles: a function of its body, of the replies to its own calls and of
\* the values fixed at startup.
HandledAlone(r) ==
    CASE endpoint[r] = "get_safe_route" ->
            RouteOutcome(body[r], Nth(replies[r], 1), Nth(replies[r], 2),
                         Nth(replies[r], 3))
      [] endpoint[r] = "ask_ai" -> AskOutcome(openai_api_key, Nth(replies[r], 1))
      [] endpoint[r] = "get_safety_score" ->
            ScoreOutcome(RequestsPost(scoring_provider[r]))
      [] endpoint[r] = "alerts" -> Success(AlertsLiteral)
      [] endpoint[r] = "root" ->
            Success([message |-> "Welcome to the Safe Streets API"])

(* ------------------------------ claims -------------------------------- *)
RouteDone(r) == pc[r] = "returning" /\ endpoint[r] = "get_safe_route"
NotFound(res, msg) == res.status = 404 /\ res.detail = msg
InProviderCall(r) ==
    pc[r] \in {"in_geocode_origin", "in_geocode_destination", "in_route", "in_chat"}

\* C1: when both geocoding calls return normally and the origin's or the
\* destination's feature list is empty, get_safe_route answers 404 with
\* detail "Could not find valid coordinates for the specified addresses."
C1_EmptyGeocodeIsNotFound ==
    \A r \in Req :
        ( /\ RouteDone(r)
          /\ Len(replies[r]) >= 2
          /\ replies[r][1].kind = "ok" /\ replies[r][2].kind = "ok"
          /\ (replies[r][1].features = <<>> \/ replies[r][2].features = <<>>) )
        => NotFound(result[r], CoordsMsg)

\* C2: when both geocodes succeed and the routing call raises an ApiError,
\* the answer is 404 with the remote-destination message if the error text
\* contains "Could not find routable point within a radius", and otherwise
\* 500 with detail "Error generating route: <provider message>".
C2_RoutingApiErrorMapping ==
    \A r \in Req :
        ( /\ RouteDone(r)
          /\ Len(replies[r]) = 3
          /\ replies[r][3].kind = "raise"
          /\ replies[r][3].exc.type = "ApiError" )
        => IF Contains(Str(replies[r][3].exc), RadiusNeedle)
           THEN NotFound(result[r], RemoteMsg)
           ELSE /\ result[r].status = 500
                /\ result[r].detail =
                     <<"Error generating route: ">> \o Str(replies[r][3].exc)

\* C3: get_safety_score answers 200 with safety_score "Error fetching safety
\* score" when the scoring provider answers a non-200 status, 200 with the
\* provider's score (or "N/A") when it answers 200, and 500 "Could not fetch
\* safety score." only when the provider call fails at transport level.
C3_SafetyScoreSoftFailure ==
    \A r \in Req :
        (pc[r] = "returning" /\ endpoint[r] = "get_safety_score")
        => LET p == scoring_provider[r]
           IN  IF p.kind = "raise"
               THEN result[r].status = 500 /\ result[r].detail = ScoreFailMsg
               ELSE IF p.status_code = 200
               THEN result[r] = Success([safety_score |->
                        IF HasKey(p.json, "score") THEN p.json.score ELSE "N/A"])
               ELSE result[r] = Success([safety_score |-> "Error fetching safety score"])

\* C4: in a successful get_safe_route response the alerts are a function of
\* the first features' (lon, lat) of the two geocodes alone: police_stations
\* is 3 if origin.lat > dest.lat else 2, public_facilities 5 if origin.lon <
\* dest.lon else 3, crowd_density "High" if origin.lat < dest.lat else
\* "Medium"; ties take the else branch.
C4_AlertsFromCoordinates ==
    \A r \in Req :
        (RouteDone(r) /\ result[r].status = 200)
        => LET o == replies[r][1].features[1].geometry.coordinates
               d == replies[r][2].features[1].geometry.coordinates
               a == result[r].body.alerts
           IN  /\ a.police_stations = (IF o[2] > d[2] THEN 3 ELSE 2)
               /\ a.public_facilities = (IF o[1] < d[1] THEN 5 ELSE 3)
               /\ a.crowd_density = (IF o[2] < d[2] THEN "High" ELSE "Medium")
               /\ (o[2] = d[2] => a.police_stations = 2 /\ a.crowd_density = "Medium")
               /\ (o[1] = d[1] => a.public_facilities = 3)

C4_Witness ==
    \E r \in Req :
        /\ RouteDone(r) /\ result[r].status = 200
        /\ replies[r][1].features[1].geometry.coordinates
             = replies[r][2].features[1].geometry.coordinates
        /\ body[r].origin # body[r].destination

\* C5: while no OpenAI credential is configured, an ask_ai request never
\* issues a chat-completion call and ends with status 500 whose detail
\* reports that the OpenAI API key is not set.
NoCredential == openai_api_key \in {"None", ""}

C5_NoCredentialNoCall ==
    \A r \in Req :
        (endpoint[r] = "ask_ai" /\ NoCredential)
        => /\ calls[r] = <<>>
           /\ pc[r] # "in_chat"
           /\ pc[r] = "returning" =>
                /\ result[r].status = 500
                /\ Contains(result[r].detail, KeyNotSetMsg[1])

C5_Witness ==
    \E r \in Req :
        /\ endpoint[r] = "ask_ai" /\ openai_api_key = ""
        /\ pc[r] = "returning"

\* C6: when both geocodes return a feature and the routing call returns an
\* empty feature list, get_safe_route answers 404 "No route found between the
\* specified locations."; with a non-empty list the returned route is the
\* geometry of the first route feature.
C6_EmptyRouteIsNotFound ==
    \A r \in Req :
        ( /\ RouteDone(r)
          /\ Len(replies[r]) = 3
          /\ replies[r][3].kind = "ok" )
        => IF replies[r][3].features = <<>>
           THEN NotFound(result[r], NoRouteMsg)
           ELSE result[r].status = 200 =>
                  result[r].body.route = replies[r][3].features[1].geometry.coordinates

\* C7: within one get_safe_route request the provider calls are issued in
\* the order geocode(origin), geocode(destination), route, each at most
\* once; the destination geocode only after the origin geocode returned, the
\* routing call only after both geocodes returned a non-empty feature list;
\* after a call fails no further call is issued and the request ends in a
\* failure response.
RouteCallOrder == <<"geocode_origin", "geocode_destination", "route">>

C7_ProviderCallOrder ==
    \A r \in Req :
        endpoint[r] = "get_safe_route"
        => /\ Len(calls[r]) <= 3
           /\ calls[r] = SubSeq(RouteCallOrder, 1, Len(calls[r]))
           /\ Len(replies[r]) \in {Len(calls[r]) - 1, Len(calls[r])}
           /\ (Len(replies[r]) < Len(calls[r])) = InProviderCall(r)
           /\ \A i \in 1..Len(replies[r]) :
                 replies[r][i].kind = "raise"
                 => /\ Len(calls[r]) = i
                    /\ pc[r] \in {"except", "returning"}
                    /\ pc[r] = "returning" => result[r].status # 200
           /\ Len(calls[r]) = 3
                 => /\ replies[r][1].kind = "ok" /\ replies[r][1].features # <<>>
                    /\ replies[r][2].kind = "ok" /\ replies[r][2].features # <<>>
           /\ pc[r] = "returning" => Len(calls[r]) >= 1

C7_Witness ==
    \E r \in Req :
        /\ RouteDone(r)
        /\ calls[r] = RouteCallOrder
        /\ replies[r][3].kind = "raise"

\* C8: in get_safe_route an IndexError is answered with 404 "Could not find
\* valid coordinates for the specified addresses.", the same outcome as the
\* empty-geocode case, and any other failure on a malformed payload (a
\* missing key) with 500 and a detail starting "Unexpected error occurred: "
\* followed by the underlying message.
EmptyGeocodeOutcome(b) == RouteOutcome(b, Ok(<<>>), Ok(<<>>), NoneVal)

C8_IndexErrorSameAsEmptyGeocode ==
    \A r \in Req :
        (RouteDone(r) /\ frame[r].e # NoneVal)
        => /\ frame[r].e.type = "IndexError"
                => /\ NotFound(result[r], CoordsMsg)
                   /\ result[r] = EmptyGeocodeOutcome(body[r])
           /\ frame[r].e.type = "KeyError"
                => /\ result[r].status = 500
                   /\ result[r].detail =
                        <<"Unexpected error occurred: ">> \o Str(frame[r].e)

\* C9: provider calls are suspension points: while one request waits inside
\* a geocoding, routing or chat call, the runtime can start the handling of
\* another request that has arrived.
C9_ProviderCallsAreSuspensionPoints ==
    \A r, q \in Req :
        (InProviderCall(r) /\ q # r /\ pc[q] = "pending")
        => ENABLED (StartHandler(q) \/ DispatchToThread(q))

\* C10: no handler writes the process-wide values (credentials, routing
\* client key, allowed origins), every response equals the response the same
\* request gets when handled alone, and GET /alerts always answers the
\* literal {police_stations: 2, public_facilities: 5, crowd_density: "Medium"}.
C10_NoSharedMutableState ==
    /\ [][globals' = globals]_vars
    /\ [](\A r \in Req :
            pc[r] \in {"returning", "thread_done"}
            => /\ result[r] = HandledAlone(r)
               /\ endpoint[r] = "alerts" =>
                    result[r] = [status |-> 200, detail |-> <<>>,
                                 body |-> [police_stations |-> 2,
                                           public_facilities |-> 5,
                                           crowd_density |-> "Medium"]])

C10_Witness ==
    \E r, q \in Req :
        /\ q # r
        /\ pc[r] = "returning" /\ endpoint[r] = "alerts"
        /\ pc[q] = "thread_done"

====
